---- MODULE Spec2Model ----
(***************************************************************************)
(* Model of mytoyota.controller.Controller: the session state, the login   *)
(* sequence (_update_token), the validity check (_is_token_valid) and the  *)
(* request pipeline (request_raw, request_json), run by asyncio tasks on   *)
(* controller instances.  A task runs atomically between two awaits of     *)
(* network I/O; every action below is one such segment of the code.        *)
(* mytoyota.models.vehicle.Vehicle is modelled next to it.                 *)
(***************************************************************************)
EXTENDS Integers, FiniteSets, Sequences, TLC

(* ---------------------------------------------------------------------- *)
(* Bounds of the model                                                     *)
(* ---------------------------------------------------------------------- *)
\* the clock runs from 0 to MaxTime
MaxTime == 2
\* the largest expires_in a token response carries
MaxExpiresIn == 2

(* ---------------------------------------------------------------------- *)
(* Values                                                                  *)
(* ---------------------------------------------------------------------- *)
\* callers (asyncio tasks) of the one controller; Spec runs the calls of
\* one task one after the other, SpecConc runs two tasks concurrently
Tasks == {"t1", "t2"}
SeqTasks == {"t1"}

\* the controller instances; every call of Spec and SpecConc is made on
\* Main, SpecTwo gives each task a controller of its own
Controllers == {"c1", "c2"}
Main == "c1"
OwnController(t) == IF t = "t1" THEN "c1" ELSE "c2"

\* the credentials the controllers are constructed with
Username == "user@example.org"
Password == "secret"
Username2 == "other@example.org"
Password2 == "hunter2"

\* timeout: int = 30
Timeout == 30
\* the timeout of an httpx.AsyncClient() constructed without one
HttpxDefaultTimeout == 5

\* Python None for the string-valued fields, and for the datetime field
None == "None"
NoneTime == -1

\* for _ in range(10)
\* (variant: one round more)
MaxRoundsOneMore == 10 + 1
MaxRounds == 10

HTTP_OK == 200
HTTP_ACCEPTED == 202
HTTP_FOUND == 302

\* methods a caller may pass to request_raw
Methods == {"GET", "DELETE", "PATCH"}
\* vin argument of request_raw, and method and vin of request_json
Vins == {None, "VIN1"}
JsonMethods == {"GET"}
JsonVins == {None}

\* response bodies (resp.text) that are not JSON documents
Texts == {"body1", "body2"}
\* the text of a response whose body is a JSON document (the document
\* itself is given next to it)
JsonText == "{json}"
\* the texts the login endpoints and the API endpoint answer with
LoginTexts == {"body1", JsonText}
ApiTexts == (Texts \ {"body1"}) \cup {JsonText}
\* statuses the API endpoint answers with
ApiStatuses == {200, 201, 202, 500}

\* a JSON object is a record with the set of its keys and the values of
\* the keys it may hold; "k in d" is k \in d.keys
EmptyData == [keys |-> {}, tokenId |-> None, callbacks |-> <<>>]
\* a callback prompt: cb["type"], cb["output"][0]["value"] and
\* cb["input"][0]["value"]
Callback(type, output, input) == [type |-> type, output |-> output, input |-> input]
LoginPrompts ==
    << Callback("NameCallback", "User Name", ""),
       Callback("PasswordCallback", "Password", ""),
       Callback("ChoiceCallback", "Language", "en") >>
OtherPrompts == << Callback("NameCallback", "One Time Code", "") >>
AuthBodies ==
    { EmptyData,
      [keys |-> {"callbacks"}, tokenId |-> None, callbacks |-> LoginPrompts],
      [keys |-> {"callbacks"}, tokenId |-> None, callbacks |-> OtherPrompts],
      [keys |-> {"tokenId"}, tokenId |-> "tid1", callbacks |-> <<>>] }
AuthStatuses == {200, 401}

\* the authorize response: a status and the Location header, which is
\* absent or a URL whose query string holds the keys in query
NoLocation == [present |-> FALSE, query |-> {}, code |-> None]
Locations ==
    { NoLocation,
      [present |-> TRUE, query |-> {}, code |-> None],
      [present |-> TRUE, query |-> {"code"}, code |-> "code1"] }
AuthorizeStatuses == {302, 200}

\* identity tokens: structurally a JWT or not, signature verifiable or not,
\* and the claims of the payload
IdTokenUuid1 ==
    [wellformed |-> TRUE, signed |-> TRUE, claims |-> {"uuid"}, uuid |-> "uuid1"]
IdTokens ==
    { IdTokenUuid1,
      [wellformed |-> TRUE,  signed |-> FALSE, claims |-> {"uuid"}, uuid |-> "uuid2"],
      [wellformed |-> TRUE,  signed |-> TRUE,  claims |-> {},       uuid |-> None],
      [wellformed |-> FALSE, signed |-> FALSE, claims |-> {},       uuid |-> None] }
NoIdToken == [wellformed |-> FALSE, signed |-> FALSE, claims |-> {}, uuid |-> None]

TokenKeys == {"access_token", "id_token", "refresh_token", "expires_in"}
AccessTokens == {"", "tokA", "tokB"}
RefreshTokens == {"refA"}
ExpiresIns == {0, MaxExpiresIn}
\* the JSON bodies of the token endpoint; a key that is absent has the
\* default value, the access_token of a body that has the key may be the
\* JSON null (None; one such body), and a body that lacks a key carries
\* one fixed value for each key it has (the code reads no value of such a
\* body)
TokenBodies ==
    { b \in [keys : SUBSET TokenKeys,
             access_token : AccessTokens \cup {None},
             id_token : IdTokens,
             refresh_token : RefreshTokens \cup {None},
             expires_in : ExpiresIns] :
        /\ ("access_token" \notin b.keys) => b.access_token = None
        /\ ("access_token" \in b.keys /\ b.access_token = None) =>
               /\ b.keys = TokenKeys
               /\ b.id_token = IdTokenUuid1
               /\ b.expires_in = MaxExpiresIn
        /\ ("refresh_token" \in b.keys) = (b.refresh_token # None)
        /\ ("id_token" \notin b.keys) => b.id_token = NoIdToken
        /\ ("expires_in" \notin b.keys) => b.expires_in = 0
        /\ b.keys # TokenKeys =>
               /\ ("access_token" \in b.keys) => b.access_token = "tokB"
               /\ b.id_token \in {NoIdToken, IdTokenUuid1}
               /\ ("expires_in" \in b.keys) => b.expires_in = MaxExpiresIn }
TokenStatuses == {200, 400}

\* the inputs of the concurrent specification: a login that gets its
\* tokenId in the first round, and token responses of two exchanges
ConcMethods == {"GET"}
ConcVins == {None}
ConcAuthBodies == { b \in AuthBodies : "tokenId" \in b.keys }
ConcLocations == { l \in Locations : l.present }
ConcTokenBodies ==
    { b \in TokenBodies :
        /\ b.keys = TokenKeys
        /\ b.access_token \notin {None, ""}
        /\ b.expires_in = MaxExpiresIn
        /\ b.id_token.wellformed
        /\ (b.access_token = "tokA") = (b.id_token.uuid = "uuid1") }
ConcApiStatuses == {200, 500}
\* token responses of a server that issues every access token together
\* with one uuid (IssuedPairs), and whose identity token may be malformed
IssuedPairs == { <<"tokA", "uuid1">>, <<"", "uuid2">> }
MixTokenBodies ==
    { b \in TokenBodies :
        /\ b.keys = TokenKeys
        /\ b.access_token \in {"tokA", ""}
        /\ b.expires_in = MaxExpiresIn
        /\ b.id_token.wellformed => <<b.access_token, b.id_token.uuid>> \in IssuedPairs }
ConcTexts == {"body1"}
ConcLoginTexts == {JsonText}

(* ---------------------------------------------------------------------- *)
(* State                                                                   *)
(* ---------------------------------------------------------------------- *)
VARIABLES
    now,              \* datetime.now()
    controller,       \* per controller: the attributes __init__ sets
    pc,               \* per task: the await it is suspended at
    call,             \* per task: the call it runs and its arguments
    round,            \* per task: iterations of the challenge loop started
    data,             \* per task: the local variable data of _update_token
    resp,             \* per task: the local variable resp of _update_token
                      \* (status_code, text and the Location header)
    authorize_request, \* per task: the cookie header of its authorize GET
    authentication_code, \* per task: the local variable authentication_code
    token_request,    \* per task: the form data of its token POST
    access_tokens,    \* per task: the local variable access_tokens
    response,         \* per task: the local variable response of request_raw
    request_timeout,  \* per task: the timeout of the client it last sent with
    sent,             \* per task: requests sent by the call, per endpoint
    api_headers,      \* per task: headers of the API request it dispatched
    result,           \* per task: how the call ended
    vehicle_info,     \* the vehicle-list entry a Vehicle is built from
    vehicle,          \* the Vehicle object
    got,              \* the values read from the Vehicle's properties
    connected_services, \* the connected-services data a Vehicle is built from
    vehicle_status,   \* the status data a Vehicle is built from
    status_legacy,    \* the legacy status data a Vehicle is built from
    headers,          \* the headers argument of a request_raw call
    merged            \* the headers request_raw hands to client.request

\* the session state of the controller the calls of Spec and SpecConc use
token == controller[Main].token
token_expiration == controller[Main].token_expiration
refresh_token == controller[Main].refresh_token
uuid == controller[Main].uuid

session == <<token, token_expiration, refresh_token, uuid>>
locals == <<pc, call, round, data, resp, authorize_request,
            authentication_code, token_request,
            access_tokens, response, request_timeout, sent, api_headers,
            result>>
vehicles == <<vehicle_info, vehicle, got, connected_services, vehicle_status,
              status_legacy, headers, merged>>
vars == <<now, controller, pc, call, round, data, resp, authorize_request,
          authentication_code, token_request, access_tokens, response,
          request_timeout, sent, api_headers, result, vehicle_info, vehicle,
          got, connected_services, vehicle_status, status_legacy, headers, merged>>

NoCall == [op |-> "none", self |-> Main, method |-> "GET", vin |-> None]
NoSent == [authenticate |-> 0, authorize |-> 0, token |-> 0, api |-> 0]
NoHeaders == [dispatched |-> FALSE, x_guid |-> None, guid |-> None,
              bearer |-> None, vin |-> None]
NoResp == [status |-> 0, text |-> "", location |-> NoLocation, json |-> EmptyData]
NoCookie == [sent |-> FALSE, iPlanetDirectoryPro |-> None]
NoResponse == [status |-> 0, text |-> ""]
NoTokens == [keys |-> {}, access_token |-> None, id_token |-> NoIdToken,
             refresh_token |-> None, expires_in |-> 0]
NoTokenRequest == [client_id |-> None, code |-> None, redirect_uri |-> None,
                   grant_type |-> None, code_verifier |-> None]
NoTimeout == 0
NoResult == [kind |-> "none", status |-> 0, text |-> ""]

Raise(kind) == [kind |-> kind, status |-> 0, text |-> ""]
RaiseWith(kind, status, text) == [kind |-> kind, status |-> status, text |-> text]
Returned(status, text) == [kind |-> "returned", status |-> status, text |-> text]

\* Controller.__init__(username, password, timeout)
NewController(username, password, timeout) ==
    [username |-> username, password |-> password, token |-> None,
     token_expiration |-> NoneTime, refresh_token |-> None, uuid |-> None,
     timeout |-> timeout]

\* a dict of a vehicle-list entry: the set of its keys and their values
\* (Optional values are sequences of length at most one: <<>> is None)
NoInfo == [keys |-> {}, id |-> 0, vin |-> "", alias |-> "", hybrid |-> FALSE]
VehicleInfos ==
    { d \in [keys : SUBSET {"id", "vin", "alias", "hybrid"},
             id : {0, 12345}, vin : {"", "VIN1", "VIN2"},
             alias : {"", "My car"}, hybrid : BOOLEAN] :
        /\ ("id" \notin d.keys) => d.id = 0
        /\ ("vin" \notin d.keys) => d.vin = ""
        /\ ("alias" \notin d.keys) => d.alias = ""
        /\ ("hybrid" \notin d.keys) => d.hybrid = FALSE }
\* the entries the connected-services properties are read with: the vin
\* absent, empty or set
ServiceInfos == { d \in VehicleInfos : d.keys \subseteq {"vin"} /\ d.vin # "VIN2" }

\* the connected-services data: no connectedService key, the key with the
\* JSON null, or with an object that has a status or not
NoServices == [keys |-> {}, connectedService |-> <<>>]
ConnectedServices ==
    { NoServices,
      [keys |-> {"connectedService"}, connectedService |-> <<>>],
      [keys |-> {"connectedService"},
       connectedService |-> <<[keys |-> {}, status |-> ""]>>],
      [keys |-> {"connectedService"},
       connectedService |-> <<[keys |-> {"status"}, status |-> "ACTIVE"]>>],
      [keys |-> {"connectedService"},
       connectedService |-> <<[keys |-> {"status"}, status |-> "INACTIVE"]>>] }

\* the status data (only its keys are read) and the legacy status data
NoStatus == [keys |-> {}]
Statuses == [keys : SUBSET {"event", "protectionState", "climate"}]
NoLegacy == [keys |-> {}, VehicleInfo |-> [keys |-> {}]]
LegacyStatuses ==
    { NoLegacy,
      [keys |-> {"VehicleInfo"}, VehicleInfo |-> [keys |-> {}]],
      [keys |-> {"VehicleInfo"}, VehicleInfo |-> [keys |-> {"RemoteHvacInfo"}]] }

NoVehicle == [built |-> FALSE, vehicle_info |-> NoInfo,
              connected_services |-> NoServices, status |-> NoStatus,
              status_legacy |-> NoLegacy]
\* what reading a property gave: a value, or the exception it raised
NotRead(v) == [kind |-> "none", value |-> v]
Value(v) == [kind |-> "returned", value |-> v]
Raised(kind, v) == [kind |-> kind, value |-> v]
NoGot == [read |-> {}, id |-> <<>>, vin |-> <<>>, alias |-> <<>>, hybrid |-> <<>>,
          is_connected_services_enabled |-> NotRead(FALSE),
          parkinglocation |-> NotRead(None), sensors |-> NotRead(None),
          hvac |-> NotRead(None), dashboard |-> NotRead(None)]

\* HTTP header dicts: for every name the value (a sequence of its parts),
\* <<>> when the dict has no such key
PipelineNames ==
    {"x-api-key", "x-guid", "guid", "authorization", "x-channel", "x-brand",
     "user-agent"}
HeaderNames == PipelineNames \cup {"vin", "accept"}
NoHeaderDict == [k \in HeaderNames |-> <<>>]
CallerHeaders == [HeaderNames -> {<<>>, <<"caller">>}]
\* the headers argument: None (<<>>) or a dict
HeaderArgs == {<<>>} \cup { <<h>> : h \in CallerHeaders }
NoMerged == [done |-> FALSE, token |-> None, uuid |-> None, vin |-> None,
             headers |-> NoHeaderDict]
\* the session values and the vin the headers are built with
HeaderTokens == {None, "tokA"}
HeaderUuids == {None, "uuid1"}
HeaderVins == {None, "VIN1"}

\* the part of the state every specification starts from
InitCalls ==
    /\ now = 0
    /\ controller = [c \in Controllers |->
                        IF c = Main THEN NewController(Username, Password, Timeout)
                        ELSE NewController(Username2, Password2, Timeout)]
    /\ pc = [t \in Tasks |-> "idle"]
    /\ call = [t \in Tasks |-> NoCall]
    /\ round = [t \in Tasks |-> 0]
    /\ data = [t \in Tasks |-> EmptyData]
    /\ resp = [t \in Tasks |-> NoResp]
    /\ authorize_request = [t \in Tasks |-> NoCookie]
    /\ authentication_code = [t \in Tasks |-> None]
    /\ token_request = [t \in Tasks |-> NoTokenRequest]
    /\ access_tokens = [t \in Tasks |-> NoTokens]
    /\ response = [t \in Tasks |-> NoResponse]
    /\ request_timeout = [t \in Tasks |-> NoTimeout]
    /\ sent = [t \in Tasks |-> NoSent]
    /\ api_headers = [t \in Tasks |-> NoHeaders]
    /\ result = [t \in Tasks |-> NoResult]
    /\ vehicle = NoVehicle
    /\ got = NoGot
    /\ merged = NoMerged

\* no Vehicle arguments and no headers argument
NoVehicleArgs ==
    /\ connected_services = NoServices
    /\ vehicle_status = NoStatus
    /\ status_legacy = NoLegacy

Init ==
    /\ InitCalls
    /\ vehicle_info = NoInfo
    /\ NoVehicleArgs
    /\ headers = <<>>

(* ---------------------------------------------------------------------- *)
(* Pure helpers                                                            *)
(* ---------------------------------------------------------------------- *)
\* Python truthiness of an Optional[str]
Truthy(s) == s # None /\ s # ""

\* _is_token_valid
IsTokenValid(tok, exp, t) ==
    IF Truthy(tok) \/ exp = NoneTime THEN FALSE ELSE exp > t

is_token_valid == IsTokenValid(token, token_expiration, now)

\* self._is_token_valid() of controller self
IsValid(self) ==
    IsTokenValid(controller[self].token, controller[self].token_expiration, now)

\* resp.json() succeeds
IsJson(text) == text = JsonText

\* the body of "for cb in data['callbacks']"
\* (variant: every NameCallback gets the username)
FillCallbackAnyName(self, cb) ==
    IF cb.type = "NameCallback"
    THEN [cb EXCEPT !.input = controller[self].username]
    ELSE IF cb.type = "PasswordCallback"
    THEN [cb EXCEPT !.input = controller[self].password]
    ELSE cb
FillCallback(self, cb) ==
    IF cb.type = "NameCallback" /\ cb.output = "User Name"
    THEN [cb EXCEPT !.input = controller[self].username]
    ELSE IF cb.type = "PasswordCallback"
    THEN [cb EXCEPT !.input = controller[self].password]
    ELSE cb

\* if "callbacks" in data: ... (data is changed in place and then posted)
FillCallbacks(self, d) ==
    IF "callbacks" \in d.keys
    THEN [d EXCEPT !.callbacks =
             [i \in DOMAIN d.callbacks |-> FillCallback(self, d.callbacks[i])]]
    ELSE d

\* method not in ("GET", "POST", "PUT", "DELETE")
\* (variant: the test left out)
MethodAllowedAny(m) == TRUE
MethodAllowed(m) == m \in {"GET", "POST", "PUT", "DELETE"}

\* response.status_code in [HTTPStatus.OK, HTTPStatus.ACCEPTED]
\* (variant: 201 accepted as well)
IsSuccessAny2xx(status) == status \in {200, 201, 202}
IsSuccess(status) == status \in {HTTP_OK, HTTP_ACCEPTED}

\* the four "not in access_tokens" tests
\* (variant: the expires_in test left out)
MissingTokensNoExpiry(b) ==
    \/ "access_token" \notin b.keys
    \/ "id_token" \notin b.keys
    \/ "refresh_token" \notin b.keys
MissingTokens(b) ==
    \/ "access_token" \notin b.keys
    \/ "id_token" \notin b.keys
    \/ "refresh_token" \notin b.keys
    \/ "expires_in" \notin b.keys

\* datetime.now() + timedelta(seconds=access_tokens["expires_in"])
\* (variant: expires_in not added)
NewExpirationNoAdd(t, expires_in) == t
NewExpiration(t, expires_in) == t + expires_in

\* jwt.decode(..., options={"verify_signature": False}): fails on a token
\* that is not structurally a JWT, never on the signature
JwtDecodable(idt) == idt.wellformed

\* the data of the token POST
TokenRequestData(code) ==
    [client_id |-> "oneapp", code |-> code,
     redirect_uri |-> "com.toyota.oneapp:/oauth2Callback",
     grant_type |-> "authorization_code", code_verifier |-> "plain"]

\* dict.get(key): None when the key is absent
DictGet(d, k) == IF k \in d.keys THEN <<d[k]>> ELSE <<>>

\* the headers request_raw sets from the session, and the vin header
BuildHeaders(tok, uid, vin) ==
    [dispatched |-> TRUE, x_guid |-> uid, guid |-> uid, bearer |-> tok, vin |-> vin]

(* ---------------------------------------------------------------------- *)
(* Segments of the code, shared by the actions                             *)
(* ---------------------------------------------------------------------- *)
\* a call of task t ends with result r
Finish(t, r) ==
    /\ pc' = [pc EXCEPT ![t] = "done"]
    /\ result' = [result EXCEPT ![t] = r]

\* the timeout of the clients: httpx.AsyncClient() in _update_token,
\* httpx.AsyncClient(timeout=self._timeout) in request_raw
LoginClientTimeout(self) == HttpxDefaultTimeout
ApiClientTimeout(self) == controller[self].timeout

\* resp.status_code != HTTPStatus.OK after the authenticate POST
\* (variant: only a server error fails)
AuthenticateFailedServerOnly(status) == status >= 500
AuthenticateFailed(status) == status # HTTP_OK

\* resp.status_code != HTTPStatus.FOUND after the authorize GET
\* (variant: the test left out)
AuthorizeFailedNever(status) == FALSE
AuthorizeFailed(status) == status # HTTP_FOUND

\* for _ in range(10): another iteration follows iteration r
\* (variant: a loop without the cap)
RoundsLeftAlways(r) == TRUE
RoundsLeft(r) == r < MaxRounds

\* headers={"cookie": f"iPlanetDirectoryPro={data['tokenId']}"}
\* (variant: the cookie without the tokenId)
AuthorizeCookieEmpty(d) == [sent |-> TRUE, iPlanetDirectoryPro |-> ""]
AuthorizeCookie(d) == [sent |-> TRUE, iPlanetDirectoryPro |-> d.tokenId]

\* self._token = ...; self._refresh_token = ...
StoreTokens(self, b) ==
    [controller EXCEPT ![self].token = b.access_token,
                       ![self].refresh_token = b.refresh_token]

\* self._token = ...; self._refresh_token = ...; self._uuid = ...;
\* self._token_expiration = ..., with datetime.now() = t
\* (variant: the attributes are those of one shared object)
StoreSessionShared(self, b, t) ==
    [controller EXCEPT ![Main].token = b.access_token,
                       ![Main].refresh_token = b.refresh_token,
                       ![Main].uuid = b.id_token.uuid,
                       ![Main].token_expiration = NewExpiration(t, b.expires_in)]
StoreSession(self, b, t) ==
    [controller EXCEPT ![self].token = b.access_token,
                       ![self].refresh_token = b.refresh_token,
                       ![self].uuid = b.id_token.uuid,
                       ![self].token_expiration = NewExpiration(t, b.expires_in)]

\* the locals of a call that has not reached _update_token
ClearLoginLocals(t) ==
    /\ round' = [round EXCEPT ![t] = 0]
    /\ data' = [data EXCEPT ![t] = EmptyData]
    /\ resp' = [resp EXCEPT ![t] = NoResp]
    /\ authorize_request' = [authorize_request EXCEPT ![t] = NoCookie]
    /\ authentication_code' = [authentication_code EXCEPT ![t] = None]
    /\ token_request' = [token_request EXCEPT ![t] = NoTokenRequest]
    /\ access_tokens' = [access_tokens EXCEPT ![t] = NoTokens]
    /\ response' = [response EXCEPT ![t] = NoResponse]

\* _update_token from its first line to the first authenticate POST
\* (data = {}, first iteration of the loop, nothing to fill in)
EnterUpdateToken(t, self) ==
    /\ pc' = [pc EXCEPT ![t] = "authenticate"]
    /\ round' = [round EXCEPT ![t] = 1]
    /\ data' = [data EXCEPT ![t] = EmptyData]
    /\ resp' = [resp EXCEPT ![t] = NoResp]
    /\ authorize_request' = [authorize_request EXCEPT ![t] = NoCookie]
    /\ authentication_code' = [authentication_code EXCEPT ![t] = None]
    /\ token_request' = [token_request EXCEPT ![t] = NoTokenRequest]
    /\ access_tokens' = [access_tokens EXCEPT ![t] = NoTokens]
    /\ response' = [response EXCEPT ![t] = NoResponse]
    /\ request_timeout' = [request_timeout EXCEPT ![t] = LoginClientTimeout(self)]
    /\ sent' = [sent EXCEPT ![t] = [NoSent EXCEPT !.authenticate = 1]]
    /\ api_headers' = [api_headers EXCEPT ![t] = NoHeaders]
    /\ result' = [result EXCEPT ![t] = NoResult]

\* request_raw from the headers to the await of client.request, with the
\* session values tok and uid read at that moment
Dispatch(t, self, tok, uid, vin, sentBefore) ==
    /\ pc' = [pc EXCEPT ![t] = "api"]
    /\ api_headers' = [api_headers EXCEPT ![t] = BuildHeaders(tok, uid, vin)]
    /\ request_timeout' = [request_timeout EXCEPT ![t] = ApiClientTimeout(self)]
    /\ sent' = [sent EXCEPT ![t] = [sentBefore EXCEPT !.api = @ + 1]]

\* request_raw(method, endpoint, vin) on controller self up to its first
\* await, called directly (op = "request_raw") or by request_json
EnterRequestRaw(t, self, op, m, v) ==
    /\ pc[t] \in {"idle", "done"}
    /\ call' = [call EXCEPT ![t] = [op |-> op, self |-> self, method |-> m, vin |-> v]]
    /\ IF ~MethodAllowed(m)
       THEN /\ Finish(t, Raise("ToyotaInternalError"))
            /\ ClearLoginLocals(t)
            /\ request_timeout' = [request_timeout EXCEPT ![t] = NoTimeout]
            /\ sent' = [sent EXCEPT ![t] = NoSent]
            /\ api_headers' = [api_headers EXCEPT ![t] = NoHeaders]
       ELSE IF ~IsValid(self)
       THEN EnterUpdateToken(t, self)
       ELSE /\ Dispatch(t, self, controller[self].token, controller[self].uuid, v, NoSent)
            /\ ClearLoginLocals(t)
            /\ result' = [result EXCEPT ![t] = NoResult]
    /\ UNCHANGED <<now, controller, vehicles>>

(* ---------------------------------------------------------------------- *)
(* Actions                                                                 *)
(* ---------------------------------------------------------------------- *)
\* datetime.now() advances
Tick ==
    /\ now < MaxTime
    /\ now' = now + 1
    /\ UNCHANGED <<controller, locals, vehicles>>

\* await self.login()
CallLogin(t, self) ==
    /\ pc[t] \in {"idle", "done"}
    /\ call' = [call EXCEPT ![t] =
                   [op |-> "login", self |-> self, method |-> "GET", vin |-> None]]
    /\ EnterUpdateToken(t, self)
    /\ UNCHANGED <<now, controller, vehicles>>

\* await self.request_raw(m, endpoint, v), up to its first await
CallRequestRaw(t, self, m, v) == EnterRequestRaw(t, self, "request_raw", m, v)

\* await self.request_json(m, endpoint, v), up to its first await
CallRequestJson(t, self, m, v) == EnterRequestRaw(t, self, "request_json", m, v)

\* the authenticate endpoint answers the POST of the current round
AuthenticateResponse(t, status, text, body) ==
    /\ pc[t] = "authenticate"
    /\ resp' = [resp EXCEPT ![t] =
                   [status |-> status, text |-> text, location |-> NoLocation,
                    json |-> body]]
    /\ IF AuthenticateFailed(status)
       THEN /\ Finish(t, RaiseWith("ToyotaLoginError", status, text))
            /\ UNCHANGED <<round, data, sent, authorize_request>>
       ELSE IF ~IsJson(text)
       THEN \* data = resp.json()
            /\ Finish(t, Raise("JSONDecodeError"))
            /\ UNCHANGED <<round, data, sent, authorize_request>>
       ELSE IF "tokenId" \in body.keys
       THEN \* data = resp.json(); break; the authorize GET
            /\ data' = [data EXCEPT ![t] = body]
            /\ authorize_request' = [authorize_request EXCEPT ![t] = AuthorizeCookie(body)]
            /\ pc' = [pc EXCEPT ![t] = "authorize"]
            /\ sent' = [sent EXCEPT ![t].authorize = @ + 1]
            /\ UNCHANGED <<round, result>>
       ELSE IF RoundsLeft(round[t])
       THEN \* next iteration: fill the callbacks in, POST data again
            /\ data' = [data EXCEPT ![t] = FillCallbacks(call[t].self, body)]
            /\ round' = [round EXCEPT ![t] = @ + 1]
            /\ sent' = [sent EXCEPT ![t].authenticate = @ + 1]
            /\ UNCHANGED <<pc, result, authorize_request>>
       ELSE \* range(10) exhausted, "tokenId" not in data
            /\ data' = [data EXCEPT ![t] = body]
            /\ Finish(t, Raise("ToyotaLoginError"))
            /\ UNCHANGED <<round, sent, authorize_request>>
    /\ UNCHANGED <<now, controller, call, authentication_code, token_request,
                   access_tokens, response, request_timeout, api_headers,
                   vehicles>>

\* the authorize endpoint answers the GET
AuthorizeResponse(t, status, text, loc) ==
    /\ pc[t] = "authorize"
    /\ resp' = [resp EXCEPT ![t] =
                   [status |-> status, text |-> text, location |-> loc,
                    json |-> EmptyData]]
    /\ IF AuthorizeFailed(status)
       THEN /\ Finish(t, RaiseWith("ToyotaLoginError", status, text))
            /\ UNCHANGED <<authentication_code, token_request, sent>>
       ELSE IF ~loc.present
       THEN \* httpx.URL(None)
            /\ Finish(t, Raise("TypeError"))
            /\ UNCHANGED <<authentication_code, token_request, sent>>
       ELSE IF "code" \notin loc.query
       THEN \* parse_qs(...)["code"]
            /\ Finish(t, Raise("KeyError"))
            /\ UNCHANGED <<authentication_code, token_request, sent>>
       ELSE /\ authentication_code' = [authentication_code EXCEPT ![t] = loc.code]
            /\ token_request' = [token_request EXCEPT ![t] = TokenRequestData(loc.code)]
            /\ pc' = [pc EXCEPT ![t] = "token"]
            /\ sent' = [sent EXCEPT ![t].token = @ + 1]
            /\ UNCHANGED result
    /\ UNCHANGED <<now, controller, call, round, data, authorize_request,
                   access_tokens, response,
                   request_timeout, api_headers, vehicles>>

\* the token endpoint answers the POST; the rest of _update_token and, in
\* request_raw, the code up to the await of client.request
TokenResponse(t, status, text, b) ==
    /\ pc[t] = "token"
    /\ resp' = [resp EXCEPT ![t] =
                   [status |-> status, text |-> text, location |-> NoLocation,
                    json |-> EmptyData]]
    /\ access_tokens' = IF status # HTTP_OK \/ ~IsJson(text) THEN access_tokens
                        ELSE [access_tokens EXCEPT ![t] = b]
    /\ IF status # HTTP_OK
       THEN /\ Finish(t, RaiseWith("ToyotaLoginError", status, text))
            /\ UNCHANGED <<controller, request_timeout, sent, api_headers>>
       ELSE IF ~IsJson(text)
       THEN \* access_tokens = resp.json()
            /\ Finish(t, Raise("JSONDecodeError"))
            /\ UNCHANGED <<controller, request_timeout, sent, api_headers>>
       ELSE IF MissingTokens(b)
       THEN /\ Finish(t, RaiseWith("ToyotaLoginError", status, text))
            /\ UNCHANGED <<controller, request_timeout, sent, api_headers>>
       ELSE IF ~JwtDecodable(b.id_token)
       THEN \* the token and the refresh token are stored, jwt.decode raises
            /\ controller' = StoreTokens(call[t].self, b)
            /\ Finish(t, Raise("DecodeError"))
            /\ UNCHANGED <<request_timeout, sent, api_headers>>
       ELSE IF "uuid" \notin b.id_token.claims
       THEN \* the token and the refresh token are stored, [...]["uuid"] raises
            /\ controller' = StoreTokens(call[t].self, b)
            /\ Finish(t, Raise("KeyError"))
            /\ UNCHANGED <<request_timeout, sent, api_headers>>
       ELSE /\ controller' = StoreSession(call[t].self, b, now)
            /\ IF call[t].op = "login"
               THEN /\ Finish(t, Returned(0, ""))
                    /\ UNCHANGED <<request_timeout, sent, api_headers>>
               ELSE /\ Dispatch(t, call[t].self, b.access_token, b.id_token.uuid,
                                call[t].vin, sent[t])
                    /\ UNCHANGED result
    /\ UNCHANGED <<now, call, round, data, authorize_request,
                   authentication_code, token_request,
                   response, vehicles>>

\* the API endpoint answers the request; request_json then decodes the
\* response request_raw returned
ApiResponse(t, status, text) ==
    /\ pc[t] = "api"
    /\ response' = [response EXCEPT ![t] = [status |-> status, text |-> text]]
    /\ IF ~IsSuccess(status)
       THEN Finish(t, RaiseWith("ToyotaApiError", status, text))
       ELSE IF call[t].op = "request_json" /\ ~IsJson(text)
       THEN \* response.json()
            Finish(t, Raise("JSONDecodeError"))
       ELSE Finish(t, Returned(status, text))
    /\ UNCHANGED <<now, controller, call, round, data, resp,
                   authorize_request, authentication_code,
                   token_request, access_tokens, request_timeout, sent,
                   api_headers, vehicles>>

(* ---------------------------------------------------------------------- *)
(* mytoyota.models.vehicle.Vehicle                                         *)
(* ---------------------------------------------------------------------- *)
\* Vehicle.__init__: self._vehicle_info = vehicle_info
Vehicle_init(info, cs, st, legacy) ==
    [built |-> TRUE, vehicle_info |-> info, connected_services |-> cs,
     status |-> st, status_legacy |-> legacy]

\* the properties id, vin, alias, hybrid: self._vehicle_info.get(...)
\* (variant of vin: the alias key is read)
Vehicle_vin_alias(v) == DictGet(v.vehicle_info, "alias")
Vehicle_id(v) == DictGet(v.vehicle_info, "id")
Vehicle_vin(v) == DictGet(v.vehicle_info, "vin")
Vehicle_alias(v) == DictGet(v.vehicle_info, "alias")
Vehicle_hybrid(v) == DictGet(v.vehicle_info, "hybrid")

\* Vehicle(vehicle_info, connected_services, [], status, status_legacy)
NewVehicle ==
    /\ ~vehicle.built
    /\ vehicle' = Vehicle_init(vehicle_info, connected_services, vehicle_status,
                                status_legacy)
    /\ UNCHANGED <<now, controller, locals, vehicle_info, got,
                   connected_services, vehicle_status, status_legacy, headers, merged>>

\* vehicle.id
ReadId ==
    /\ vehicle.built
    /\ got' = [got EXCEPT !.read = @ \cup {"id"}, !.id = Vehicle_id(vehicle)]
    /\ UNCHANGED <<now, controller, locals, vehicle_info, vehicle,
                   connected_services, vehicle_status, status_legacy, headers, merged>>

\* vehicle.vin
ReadVin ==
    /\ vehicle.built
    /\ got' = [got EXCEPT !.read = @ \cup {"vin"}, !.vin = Vehicle_vin(vehicle)]
    /\ UNCHANGED <<now, controller, locals, vehicle_info, vehicle,
                   connected_services, vehicle_status, status_legacy, headers, merged>>

\* vehicle.alias
ReadAlias ==
    /\ vehicle.built
    /\ got' = [got EXCEPT !.read = @ \cup {"alias"}, !.alias = Vehicle_alias(vehicle)]
    /\ UNCHANGED <<now, controller, locals, vehicle_info, vehicle,
                   connected_services, vehicle_status, status_legacy, headers, merged>>

\* vehicle.hybrid
ReadHybrid ==
    /\ vehicle.built
    /\ got' = [got EXCEPT !.read = @ \cup {"hybrid"}, !.hybrid = Vehicle_hybrid(vehicle)]
    /\ UNCHANGED <<now, controller, locals, vehicle_info, vehicle,
                   connected_services, vehicle_status, status_legacy, headers, merged>>

\* is_connected_services_enabled; "status" in None raises TypeError
\* (variant: the test of self.vin left out)
Vehicle_is_connected_services_enabled_any_vin(v) ==
    LET cs == v.connected_services
    IN  IF "connectedService" \notin cs.keys THEN Value(FALSE)
        ELSE IF cs.connectedService = <<>> THEN Raised("TypeError", FALSE)
        ELSE IF "status" \notin cs.connectedService[1].keys THEN Value(FALSE)
        ELSE Value(cs.connectedService[1].status = "ACTIVE")
Vehicle_is_connected_services_enabled(v) ==
    LET vin == Vehicle_vin(v)
        cs == v.connected_services
    IN  IF vin = <<>> \/ vin[1] = "" THEN Value(FALSE)
        ELSE IF "connectedService" \notin cs.keys THEN Value(FALSE)
        ELSE IF cs.connectedService = <<>> THEN Raised("TypeError", FALSE)
        ELSE IF "status" \notin cs.connectedService[1].keys THEN Value(FALSE)
        ELSE Value(cs.connectedService[1].status = "ACTIVE")

\* parkinglocation, sensors, hvac, dashboard: the object they build is
\* given by the name of its class (HvacLegacy: Hvac(..., True))
Vehicle_parkinglocation(v) ==
    LET e == Vehicle_is_connected_services_enabled(v)
    IN  IF e.kind # "returned" THEN Raised(e.kind, None)
        ELSE IF e.value /\ "event" \in v.status.keys THEN Value("ParkingLocation")
        ELSE Value(None)
Vehicle_sensors(v) ==
    LET e == Vehicle_is_connected_services_enabled(v)
    IN  IF e.kind # "returned" THEN Raised(e.kind, None)
        ELSE IF e.value /\ "protectionState" \in v.status.keys THEN Value("Sensors")
        ELSE Value(None)
Vehicle_hvac(v) ==
    LET e == Vehicle_is_connected_services_enabled(v)
        rci == IF "VehicleInfo" \in v.status_legacy.keys
               THEN v.status_legacy.VehicleInfo ELSE [keys |-> {}]
    IN  IF e.kind # "returned" THEN Raised(e.kind, None)
        ELSE IF ~e.value THEN Value(None)
        ELSE IF v.status.keys # {} /\ "climate" \in v.status.keys THEN Value("Hvac")
        ELSE IF "RemoteHvacInfo" \in rci.keys THEN Value("HvacLegacy")
        ELSE Value(None)
Vehicle_dashboard(v) ==
    LET e == Vehicle_is_connected_services_enabled(v)
    IN  IF e.kind # "returned" THEN Raised(e.kind, None)
        ELSE IF e.value THEN Value("Dashboard")
        ELSE Value(None)

\* vehicle.is_connected_services_enabled
ReadEnabled ==
    /\ vehicle.built
    /\ got' = [got EXCEPT !.read = @ \cup {"is_connected_services_enabled"},
                          !.is_connected_services_enabled =
                              Vehicle_is_connected_services_enabled(vehicle)]
    /\ UNCHANGED <<now, controller, locals, vehicle_info, vehicle,
                   connected_services, vehicle_status, status_legacy, headers, merged>>

\* vehicle.parkinglocation
ReadParkinglocation ==
    /\ vehicle.built
    /\ got' = [got EXCEPT !.read = @ \cup {"parkinglocation"},
                          !.parkinglocation = Vehicle_parkinglocation(vehicle)]
    /\ UNCHANGED <<now, controller, locals, vehicle_info, vehicle,
                   connected_services, vehicle_status, status_legacy, headers, merged>>

\* vehicle.sensors
ReadSensors ==
    /\ vehicle.built
    /\ got' = [got EXCEPT !.read = @ \cup {"sensors"},
                          !.sensors = Vehicle_sensors(vehicle)]
    /\ UNCHANGED <<now, controller, locals, vehicle_info, vehicle,
                   connected_services, vehicle_status, status_legacy, headers, merged>>

\* vehicle.hvac
ReadHvac ==
    /\ vehicle.built
    /\ got' = [got EXCEPT !.read = @ \cup {"hvac"}, !.hvac = Vehicle_hvac(vehicle)]
    /\ UNCHANGED <<now, controller, locals, vehicle_info, vehicle,
                   connected_services, vehicle_status, status_legacy, headers, merged>>

\* vehicle.dashboard
ReadDashboard ==
    /\ vehicle.built
    /\ got' = [got EXCEPT !.read = @ \cup {"dashboard"},
                          !.dashboard = Vehicle_dashboard(vehicle)]
    /\ UNCHANGED <<now, controller, locals, vehicle_info, vehicle,
                   connected_services, vehicle_status, status_legacy, headers, merged>>

(* ---------------------------------------------------------------------- *)
(* The headers of request_raw                                              *)
(* ---------------------------------------------------------------------- *)
\* if headers is None: headers = {}; headers.update({...});
\* if vin is not None: headers.update({"vin": vin})
\* (variant: the caller's value is kept where the caller gave one)
MergeHeadersCallerFirst(h, tok, uid, vin) ==
    LET base == IF h = <<>> THEN NoHeaderDict ELSE h[1]
        ours == [k \in HeaderNames |->
                    IF k = "x-api-key"
                    THEN <<"tTZipv6liF74PwMfk9Ed68AQ0bISswwf3iHQdqcF">>
                    ELSE IF k \in {"x-guid", "guid"} THEN <<uid>>
                    ELSE IF k = "authorization" THEN <<"Bearer", tok>>
                    ELSE IF k = "x-channel" THEN <<"ONEAPP">>
                    ELSE IF k = "x-brand" THEN <<"T">>
                    ELSE IF k = "user-agent" THEN <<"okhttp/4.10.0">>
                    ELSE IF k = "vin" /\ vin # None THEN <<vin>>
                    ELSE <<>>]
    IN  [k \in HeaderNames |-> IF base[k] # <<>> THEN base[k] ELSE ours[k]]
MergeHeaders(h, tok, uid, vin) ==
    LET base == IF h = <<>> THEN NoHeaderDict ELSE h[1]
        updated == [k \in HeaderNames |->
                       IF k = "x-api-key"
                       THEN <<"tTZipv6liF74PwMfk9Ed68AQ0bISswwf3iHQdqcF">>
                       ELSE IF k \in {"x-guid", "guid"} THEN <<uid>>
                       ELSE IF k = "authorization" THEN <<"Bearer", tok>>
                       ELSE IF k = "x-channel" THEN <<"ONEAPP">>
                       ELSE IF k = "x-brand" THEN <<"T">>
                       ELSE IF k = "user-agent" THEN <<"okhttp/4.10.0">>
                       ELSE base[k]]
    IN  [k \in HeaderNames |->
            IF k = "vin" /\ vin # None THEN <<vin>> ELSE updated[k]]

\* request_raw(method, endpoint, vin, headers=headers) with the session
\* holding tok and uid, from the headers to client.request
RequestHeaders(tok, uid, vin) ==
    /\ ~merged.done
    /\ merged' = [done |-> TRUE, token |-> tok, uuid |-> uid, vin |-> vin,
                  headers |-> MergeHeaders(headers, tok, uid, vin)]
    /\ UNCHANGED <<now, controller, locals, vehicle_info, vehicle, got,
                   connected_services, vehicle_status, status_legacy, headers>>

(* ---------------------------------------------------------------------- *)
(* Specifications                                                          *)
(* ---------------------------------------------------------------------- *)
\* the JSON documents a response can carry: none unless it is a 200 whose
\* text is JSON; the text of a 302 is empty
AuthBodiesFor(status, text, bodies) ==
    IF status = HTTP_OK /\ IsJson(text) THEN bodies ELSE {EmptyData}
TokenBodiesFor(status, text, bodies) ==
    IF status = HTTP_OK /\ IsJson(text) THEN bodies ELSE {NoTokens}
AuthorizeTextsFor(status, texts) ==
    IF status = HTTP_FOUND THEN {""} ELSE texts
\* the texts of the API endpoint: JSON or not when the request succeeded
ApiTextsFor(status, texts) ==
    IF status \in {HTTP_OK, HTTP_ACCEPTED} THEN texts ELSE texts \ {JsonText}

\* the calls of one caller on one controller, one after the other, with
\* every input
Next ==
    \/ Tick
    \/ \E t \in SeqTasks : CallLogin(t, Main)
    \/ \E t \in SeqTasks, m \in Methods, v \in Vins : CallRequestRaw(t, Main, m, v)
    \/ \E t \in SeqTasks, m \in JsonMethods, v \in JsonVins : CallRequestJson(t, Main, m, v)
    \/ \E t \in SeqTasks, status \in AuthStatuses, text \in LoginTexts :
         \E body \in AuthBodiesFor(status, text, AuthBodies) :
           AuthenticateResponse(t, status, text, body)
    \/ \E t \in SeqTasks, status \in AuthorizeStatuses, loc \in Locations :
         \E text \in AuthorizeTextsFor(status, LoginTexts) :
           AuthorizeResponse(t, status, text, loc)
    \/ \E t \in SeqTasks, status \in TokenStatuses, text \in LoginTexts :
         \E b \in TokenBodiesFor(status, text, TokenBodies) :
           TokenResponse(t, status, text, b)
    \/ \E t \in SeqTasks, status \in ApiStatuses :
         \E text \in ApiTextsFor(status, ApiTexts) :
           ApiResponse(t, status, text)

Spec == Init /\ [][Next]_vars

\* the calls of one caller, the server answering every authenticate POST
\* with a tokenId or with an empty challenge and the other requests from
\* the Conc sets; every HTTP call returns a response: the event loop
\* resumes a coroutine whose await has completed
LiveAuthBodies == { b \in AuthBodies : b.callbacks = <<>> }

Respond(t) ==
    \/ \E status \in AuthStatuses, text \in ConcLoginTexts :
         \E body \in AuthBodiesFor(status, text, LiveAuthBodies) :
           AuthenticateResponse(t, status, text, body)
    \/ \E status \in AuthorizeStatuses, loc \in ConcLocations :
         \E text \in AuthorizeTextsFor(status, ConcLoginTexts) :
           AuthorizeResponse(t, status, text, loc)
    \/ \E status \in TokenStatuses, text \in ConcLoginTexts :
         \E b \in TokenBodiesFor(status, text, ConcTokenBodies) :
           TokenResponse(t, status, text, b)
    \/ \E status \in ConcApiStatuses :
         \E text \in ApiTextsFor(status, ConcTexts) :
           ApiResponse(t, status, text)

NextLive ==
    \/ Tick
    \/ \E t \in SeqTasks : CallLogin(t, Main)
    \/ \E t \in SeqTasks, m \in ConcMethods, v \in ConcVins :
           CallRequestRaw(t, Main, m, v)
    \/ \E t \in SeqTasks : Respond(t)

SpecLive == Init /\ [][NextLive]_vars /\ \A t \in SeqTasks : WF_vars(Respond(t))

\* two callers sharing the controller, their segments interleaved as the
\* event loop may interleave them; the server answers from the Conc sets
NextConc ==
    \/ Tick
    \/ \E t \in Tasks : CallLogin(t, Main)
    \/ \E t \in Tasks, m \in ConcMethods, v \in ConcVins : CallRequestRaw(t, Main, m, v)
    \/ \E t \in Tasks, status \in AuthStatuses, text \in ConcLoginTexts :
         \E body \in AuthBodiesFor(status, text, ConcAuthBodies) :
           AuthenticateResponse(t, status, text, body)
    \/ \E t \in Tasks, status \in AuthorizeStatuses, loc \in ConcLocations :
         \E text \in AuthorizeTextsFor(status, ConcLoginTexts) :
           AuthorizeResponse(t, status, text, loc)
    \/ \E t \in Tasks, status \in TokenStatuses, text \in ConcLoginTexts :
         \E b \in TokenBodiesFor(status, text, ConcTokenBodies) :
           TokenResponse(t, status, text, b)
    \/ \E t \in Tasks, status \in ConcApiStatuses :
         \E text \in ApiTextsFor(status, ConcTexts) :
           ApiResponse(t, status, text)

SpecConc == Init /\ [][NextConc]_vars

\* two controllers, each called by a task of its own, the segments of the
\* two tasks interleaved; the server answers from the Conc sets
NextTwo ==
    \/ Tick
    \/ \E t \in Tasks : CallLogin(t, OwnController(t))
    \/ \E t \in Tasks, m \in ConcMethods, v \in ConcVins :
           CallRequestRaw(t, OwnController(t), m, v)
    \/ \E t \in Tasks, status \in AuthStatuses, text \in ConcLoginTexts :
         \E body \in AuthBodiesFor(status, text, ConcAuthBodies) :
           AuthenticateResponse(t, status, text, body)
    \/ \E t \in Tasks, status \in AuthorizeStatuses, loc \in ConcLocations :
         \E text \in AuthorizeTextsFor(status, ConcLoginTexts) :
           AuthorizeResponse(t, status, text, loc)
    \/ \E t \in Tasks, status \in TokenStatuses, text \in ConcLoginTexts :
         \E b \in TokenBodiesFor(status, text, ConcTokenBodies) :
           TokenResponse(t, status, text, b)
    \/ \E t \in Tasks, status \in ConcApiStatuses :
         \E text \in ApiTextsFor(status, ConcTexts) :
           ApiResponse(t, status, text)

SpecTwo == Init /\ [][NextTwo]_vars

\* two callers sharing the controller, the token endpoint answering with
\* MixTokenBodies
NextMix ==
    \/ Tick
    \/ \E t \in Tasks : CallLogin(t, Main)
    \/ \E t \in Tasks, m \in ConcMethods, v \in ConcVins : CallRequestRaw(t, Main, m, v)
    \/ \E t \in Tasks, status \in AuthStatuses, text \in ConcLoginTexts :
         \E body \in AuthBodiesFor(status, text, ConcAuthBodies) :
           AuthenticateResponse(t, status, text, body)
    \/ \E t \in Tasks, status \in AuthorizeStatuses, loc \in ConcLocations :
         \E text \in AuthorizeTextsFor(status, ConcLoginTexts) :
           AuthorizeResponse(t, status, text, loc)
    \/ \E t \in Tasks, status \in TokenStatuses, text \in ConcLoginTexts :
         \E b \in TokenBodiesFor(status, text, MixTokenBodies) :
           TokenResponse(t, status, text, b)
    \/ \E t \in Tasks, status \in ConcApiStatuses :
         \E text \in ApiTextsFor(status, ConcTexts) :
           ApiResponse(t, status, text)

SpecMix == Init /\ [][NextMix]_vars

\* a Vehicle built from any vehicle-list entry, and its properties read
InitVehicle ==
    /\ InitCalls
    /\ vehicle_info \in VehicleInfos
    /\ NoVehicleArgs
    /\ headers = <<>>

NextVehicle ==
    \/ NewVehicle
    \/ ReadId
    \/ ReadVin
    \/ ReadAlias
    \/ ReadHybrid

SpecVehicle == InitVehicle /\ [][NextVehicle]_vars

\* a Vehicle built from an entry, connected-services data and status
\* data, and its connected-services properties read
InitServices ==
    /\ InitCalls
    /\ vehicle_info \in ServiceInfos
    /\ connected_services \in ConnectedServices
    /\ vehicle_status \in Statuses
    /\ status_legacy \in LegacyStatuses
    /\ headers = <<>>

NextServices ==
    \/ NewVehicle
    \/ ReadEnabled
    \/ ReadParkinglocation
    \/ ReadSensors
    \/ ReadHvac
    \/ ReadDashboard

SpecServices == InitServices /\ [][NextServices]_vars

\* request_raw called with any headers argument, in any session
InitHeaders ==
    /\ InitCalls
    /\ vehicle_info = NoInfo
    /\ NoVehicleArgs
    /\ headers \in HeaderArgs

NextHeaders ==
    \E tok \in HeaderTokens, uid \in HeaderUuids, vin \in HeaderVins :
        RequestHeaders(tok, uid, vin)

SpecHeaders == InitHeaders /\ [][NextHeaders]_vars

(* ---------------------------------------------------------------------- *)
(* Properties                                                              *)
(* ---------------------------------------------------------------------- *)
\* task t takes a step of its own out of the await it is suspended at
Leaves(t, at) == pc[t] = at /\ (pc'[t] # at \/ sent'[t] # sent[t])

\* task t starts a request_raw call in this step
StartsRequestRaw(t) ==
    /\ pc[t] \in {"idle", "done"}
    /\ call'[t].op = "request_raw"
    /\ \/ pc'[t] \in {"authenticate", "api"}
       \/ pc'[t] = "done" /\ result'[t].kind = "ToyotaInternalError"

\* C1: after a login that succeeded and stored a non-empty access token
\* with an expiry in the future, _is_token_valid returns true at every
\* moment strictly before that expiry.
C1_ValidUntilExpiry ==
    \A t \in Tasks :
        ( /\ pc[t] = "done"
          /\ call[t].op = "login"
          /\ result[t].kind = "returned"
          /\ Truthy(token)
          /\ token_expiration # NoneTime
          /\ now < token_expiration )
        => is_token_valid

\* C2: the validity check returns false whenever no access token is stored
\* (absent or empty) and false whenever expiresAt <= now.
C2_InvalidWithoutTokenOrExpired ==
    /\ (token \in {None, ""}) => ~is_token_valid
    /\ (token_expiration # NoneTime /\ token_expiration <= now) => ~is_token_valid

\* C3: a request_raw call made while the controller holds an access token
\* whose expiry is in the future sends no login request and dispatches the
\* API call with the cached token.
C3_NoLoginWhileTokenLive ==
    [][ \A t \in Tasks :
          ( /\ StartsRequestRaw(t)
            /\ call'[t].method \in {"GET", "POST", "PUT", "DELETE"}
            /\ Truthy(token)
            /\ token_expiration # NoneTime
            /\ now < token_expiration )
          => /\ pc'[t] = "api"
             /\ sent'[t].authenticate = 0
             /\ sent'[t].authorize = 0
             /\ sent'[t].token = 0
             /\ api_headers'[t].bearer = token ]_vars

\* C4: when two request_raw calls on the same controller are in flight
\* and both found the session invalid, one login sequence is executed:
\* the two calls are never both inside a login (authenticate, authorize,
\* token) of their own.
LoginPcs == {"authenticate", "authorize", "token"}
C4_AtMostOneConcurrentLogin ==
    \A t1, t2 \in Tasks :
        ( /\ t1 # t2
          /\ call[t1].op = "request_raw"
          /\ call[t2].op = "request_raw" )
        => ~(pc[t1] \in LoginPcs /\ pc[t2] \in LoginPcs)

\* C5: a request_raw call whose method is not GET, POST, PUT or DELETE
\* fails with ToyotaInternalError in every session state, sends no request
\* and leaves the session state unchanged.
C5_InvalidMethodFailsOffline ==
    [][ \A t \in Tasks :
          ( /\ pc[t] \in {"idle", "done"}
            /\ call'[t].op = "request_raw"
            /\ call'[t].method \notin {"GET", "POST", "PUT", "DELETE"} )
          => /\ pc'[t] = "done"
             /\ result'[t] = Raise("ToyotaInternalError")
             /\ sent'[t] = NoSent
             /\ ~api_headers'[t].dispatched
             /\ session' = session ]_vars
C5_Witness ==
    \E t \in Tasks :
        /\ pc[t] = "done"
        /\ call[t] = [op |-> "request_raw", self |-> Main,
                      method |-> "PATCH", vin |-> "VIN1"]
        /\ result[t].kind = "ToyotaInternalError"
        /\ sent[t] = NoSent
        /\ Truthy(token)
        /\ now < token_expiration

\* C6: request_raw returns the response exactly when its status is 200 or
\* 202; for every other status it fails with ToyotaApiError carrying that
\* status and the unchanged body text; the API call is issued once per
\* invocation, and nothing is sent and no login is run after it.
C6_ApiOutcome ==
    [][ \A t \in Tasks :
          (Leaves(t, "api") /\ call[t].op = "request_raw")
          => /\ pc'[t] = "done"
             /\ sent'[t] = sent[t]
             /\ sent[t].api = 1
             /\ session' = session
             /\ IF response'[t].status \in {200, 202}
                THEN result'[t] = [kind |-> "returned",
                                   status |-> response'[t].status,
                                   text |-> response'[t].text]
                ELSE result'[t] = [kind |-> "ToyotaApiError",
                                   status |-> response'[t].status,
                                   text |-> response'[t].text] ]_vars
C6_Witness ==
    \E t \in Tasks :
        /\ pc[t] = "done"
        /\ call[t].op = "request_raw"
        /\ sent[t].api = 1
        /\ response[t] = [status |-> 201, text |-> "body2"]
        /\ result[t] = [kind |-> "ToyotaApiError", status |-> 201, text |-> "body2"]

\* C7: a login whose authenticate responses all have status 200 and a
\* JSON body with no tokenId sends exactly 10 authenticate POSTs and then fails with
\* ToyotaLoginError (unknown method) without any authorize or token
\* request; no login sends more than 10 authenticate POSTs.
C7_RoundCap ==
    /\ [](\A t \in Tasks :
            /\ sent[t].authenticate <= 10
            /\ pc[t] = "authenticate" => (sent[t].authorize = 0 /\ sent[t].token = 0))
    /\ [][ \A t \in Tasks :
             ( /\ Leaves(t, "authenticate")
               /\ resp'[t].status = 200
               /\ resp'[t].text = JsonText
               /\ "tokenId" \notin data'[t].keys )
             => IF sent[t].authenticate < 10
                THEN /\ pc'[t] = "authenticate"
                     /\ sent'[t] = [sent[t] EXCEPT !.authenticate = @ + 1]
                ELSE /\ pc'[t] = "done"
                     /\ result'[t] = Raise("ToyotaLoginError")
                     /\ sent'[t] = [NoSent EXCEPT !.authenticate = 10] ]_vars
C7_Witness ==
    \E t \in Tasks :
        /\ pc[t] = "done"
        /\ result[t] = Raise("ToyotaLoginError")
        /\ resp[t].status = 200
        /\ "tokenId" \notin data[t].keys
        /\ sent[t] = [NoSent EXCEPT !.authenticate = 10]

\* C8: a token response (status 200, JSON) that lacks any of access_token,
\* id_token, refresh_token, expires_in makes the login fail with
\* ToyotaLoginError and leaves token, refresh token, session id and expiry
\* as they were.
C8_MissingTokensFail ==
    [][ \A t \in Tasks :
          ( /\ Leaves(t, "token")
            /\ resp'[t].status = 200
            /\ resp'[t].text = JsonText
            /\ access_tokens'[t].keys # TokenKeys )
          => /\ pc'[t] = "done"
             /\ result'[t].kind = "ToyotaLoginError"
             /\ session' = session
             /\ sent'[t] = sent[t] ]_vars
C8_Witness ==
    \E t \in Tasks :
        /\ pc[t] = "done"
        /\ resp[t].status = 200
        /\ access_tokens[t].keys = TokenKeys \ {"expires_in"}
        /\ result[t].kind = "ToyotaLoginError"
        /\ Truthy(token)
        /\ token # access_tokens[t].access_token

\* C9: a token response (status 200) with all four fields and an identity
\* token that carries the uuid claim makes the login succeed, and the
\* session then holds the response's access_token and refresh_token, the
\* uuid claim, and the time of the exchange plus expires_in.
C9_SessionFromExchange ==
    [][ \A t \in Tasks :
          ( /\ Leaves(t, "token")
            /\ resp'[t].status = 200
            /\ access_tokens'[t].keys = TokenKeys
            /\ "uuid" \in access_tokens'[t].id_token.claims )
          => /\ token' = access_tokens'[t].access_token
             /\ refresh_token' = access_tokens'[t].refresh_token
             /\ uuid' = access_tokens'[t].id_token.uuid
             /\ token_expiration' = now + access_tokens'[t].expires_in
             /\ IF call[t].op = "login"
                THEN pc'[t] = "done" /\ result'[t].kind = "returned"
                ELSE pc'[t] = "api" /\ result'[t].kind = "none" ]_vars
C9_Witness ==
    \E t \in Tasks :
        /\ pc[t] = "done"
        /\ call[t].op = "login"
        /\ result[t].kind = "returned"
        /\ now > 0
        /\ access_tokens[t].expires_in > 0
        /\ ~access_tokens[t].id_token.signed
        /\ token = access_tokens[t].access_token
        /\ uuid = access_tokens[t].id_token.uuid
        /\ token_expiration = now + access_tokens[t].expires_in

\* C10: an authorize response that is not a 302, or a 302 without a
\* Location header or without a code in its query string, makes the login
\* fail with ToyotaLoginError, and no token request is sent.
C10_AuthorizeFailureIsLoginError ==
    [][ \A t \in Tasks :
          ( /\ Leaves(t, "authorize")
            /\ \/ resp'[t].status # 302
               \/ ~resp'[t].location.present
               \/ "code" \notin resp'[t].location.query )
          => /\ pc'[t] = "done"
             /\ result'[t].kind = "ToyotaLoginError"
             /\ sent'[t].token = 0 ]_vars

\* a call of task t ends in this step
Ends(t) == pc[t] # "done" /\ pc'[t] = "done"

\* C11: in any round of the challenge loop, an authenticate response with
\* a status other than 200 ends the login at once with ToyotaLoginError
\* carrying that status and body; no request is sent after it.
C11_AuthenticateFailureIsImmediate ==
    [][ \A t \in Tasks :
          ( /\ Leaves(t, "authenticate")
            /\ resp'[t].status # 200 )
          => /\ pc'[t] = "done"
             /\ result'[t] = [kind |-> "ToyotaLoginError",
                               status |-> resp'[t].status,
                               text |-> resp'[t].text]
             /\ sent'[t] = sent[t]
             /\ sent'[t].authorize = 0
             /\ sent'[t].token = 0 ]_vars
C11_Witness ==
    \E t \in Tasks :
        /\ pc[t] = "done"
        /\ result[t] = [kind |-> "ToyotaLoginError", status |-> 401, text |-> "body1"]
        /\ resp[t].status = 401
        /\ sent[t] = [NoSent EXCEPT !.authenticate = 3]

\* C12: every request_raw / request_json call that ends either returns
\* the response or fails with an error of the typed taxonomy
\* (authentication, internal, API, decoding error); no server response
\* makes it fail with another error.
TypedOutcomes ==
    {"returned", "ToyotaLoginError", "ToyotaInternalError", "ToyotaApiError",
     "JSONDecodeError"}
C12_TypedOutcomes ==
    \A t \in Tasks :
        ( /\ pc[t] = "done"
          /\ call[t].op \in {"request_raw", "request_json"} )
        => result[t].kind \in TypedOutcomes

\* C13: in every reachable state the stored access token and the stored
\* expiry are both set or both unset.
C13_TokenAndExpiryTogether ==
    \A c \in Controllers :
        (controller[c].token = None) <=> (controller[c].token_expiration = NoneTime)

\* C14: the session state (token, refresh token, session id, expiry)
\* changes only by a successful token exchange; a call that fails at any
\* step leaves the four fields as they were.
C14_SessionChangesOnlyOnSuccess ==
    [][ /\ \A t \in Tasks :
              (Ends(t) /\ result'[t].kind # "returned") => session' = session
        /\ session' # session =>
              \E t \in Tasks :
                  /\ Leaves(t, "token")
                  /\ resp'[t].status = 200
                  /\ access_tokens'[t].keys = TokenKeys
                  /\ result'[t].kind \in {"none", "returned"} ]_vars

\* C15: a token exchange whose identity token lacks the uuid claim or is
\* structurally malformed fails the login with ToyotaLoginError; one whose
\* signature cannot be verified but that carries the claim does not fail
\* the login.
C15_IdentityTokenOutcome ==
    [][ \A t \in Tasks :
          ( /\ Leaves(t, "token")
            /\ resp'[t].status = 200
            /\ resp'[t].text = JsonText
            /\ access_tokens'[t].keys = TokenKeys )
          => IF \/ ~access_tokens'[t].id_token.wellformed
                \/ "uuid" \notin access_tokens'[t].id_token.claims
             THEN /\ pc'[t] = "done"
                  /\ result'[t].kind = "ToyotaLoginError"
             ELSE result'[t].kind \in {"none", "returned"} ]_vars

\* C16: every token request uses grant_type=authorization_code with the
\* code of the authorize response of the same login, never the stored
\* refresh token, and a request_raw call on an invalid session (no token,
\* or expired) runs the full login sequence.
C16_NoRefreshGrant ==
    /\ [](\A t \in Tasks :
            pc[t] = "token"
            => /\ token_request[t].grant_type = "authorization_code"
               /\ token_request[t].code = resp[t].location.code
               /\ resp[t].status = 302
               /\ sent[t].authenticate >= 1
               /\ sent[t].authorize = 1)
    /\ [][ \A t \in Tasks :
             ( /\ StartsRequestRaw(t)
               /\ call'[t].method \in {"GET", "POST", "PUT", "DELETE"}
               /\ \/ token \in {None, ""}
                  \/ token_expiration = NoneTime
                  \/ token_expiration <= now )
             => /\ pc'[t] = "authenticate"
                /\ sent'[t] = [NoSent EXCEPT !.authenticate = 1] ]_vars

\* C17: every API request dispatched carries the access token stored at
\* dispatch time as bearer, the stored session id under x-guid and guid,
\* and the vin that was supplied; none is dispatched with a token or a
\* session id that is None.
C17_HeadersFromSession ==
    /\ [](\A t \in Tasks :
            api_headers[t].dispatched
            => /\ api_headers[t].bearer # None
               /\ api_headers[t].x_guid # None
               /\ api_headers[t].guid # None
               /\ api_headers[t].vin = call[t].vin)
    /\ [][ \A t \in Tasks :
             (pc[t] # "api" /\ pc'[t] = "api")
             => /\ api_headers'[t].dispatched
                /\ api_headers'[t].bearer = token'
                /\ api_headers'[t].x_guid = uuid'
                /\ api_headers'[t].guid = uuid' ]_vars

\* C18: the timeout configured at construction is applied to every
\* outbound HTTP call: authenticate POSTs, authorize GET, token POST and
\* the API call.
C18_TimeoutOnEveryCall ==
    \A t \in Tasks :
        pc[t] \in {"authenticate", "authorize", "token", "api"}
        => request_timeout[t] = controller[call[t].self].timeout

\* C19: two controller instances share no state: a step of a call on one
\* instance, successful or failing, leaves the other instance's
\* credentials, token, refresh token, session id and expiry unchanged.
C19_InstancesShareNoState ==
    [][ \A t \in Tasks :
          (pc'[t] # pc[t] \/ sent'[t] # sent[t] \/ call'[t] # call[t])
          => \A c \in Controllers \ {call'[t].self} :
                 controller'[c] = controller[c] ]_vars
C19_Witness ==
    /\ pc["t1"] = "done" /\ call["t1"].self = "c1"
    /\ pc["t2"] = "done" /\ call["t2"].self = "c2"
    /\ result["t2"].kind = "ToyotaLoginError"
    /\ controller["c1"].token = "tokA"
    /\ controller["c1"].uuid = "uuid1"
    /\ controller["c1"].username = Username
    /\ controller["c2"].token = "tokB"
    /\ controller["c2"].uuid = "uuid2"
    /\ controller["c2"].username = Username2

\* C20: a Vehicle built from a vehicle-list entry exposes the entry's id,
\* vin, alias and hybrid values, None for those the entry lacks, and
\* building it does not alter the entry.
C20_VehicleExposesEntry ==
    /\ [](/\ vehicle.built => vehicle.vehicle_info = vehicle_info
          /\ \A k \in got.read :
                 got[k] = IF k \in vehicle_info.keys
                          THEN <<vehicle_info[k]>> ELSE <<>>)
    /\ [][vehicle_info' = vehicle_info]_vars
C20_Witness ==
    /\ vehicle.built
    /\ got.read = {"id", "vin", "alias", "hybrid"}
    /\ vehicle_info.keys = {"vin", "hybrid"}
    /\ got.vin = <<"VIN2">>
    /\ got.hybrid = <<TRUE>>
    /\ got.alias = <<>>
    /\ got.id = <<>>

\* task t goes to the await at in this step
Reaches(t, at) == pc[t] # at /\ pc'[t] = at

\* C21: in a request_raw call that dispatches an API request the events
\* come in this order: validity check, (if a login runs) authenticate
\* POSTs, the authorize GET only after an authenticate response with
\* tokenId, the token POST only after a 302 authorize response, the
\* session update, the API request; no API request is dispatched when the
\* login of the call failed.
C21_OrderOfEvents ==
    [][ \A t \in Tasks :
          call'[t].op = "request_raw"
          => /\ Reaches(t, "authenticate")
                => /\ pc[t] \in {"idle", "done"}
                   /\ ~is_token_valid
                   /\ sent'[t] = [NoSent EXCEPT !.authenticate = 1]
             /\ Reaches(t, "authorize")
                => /\ pc[t] = "authenticate"
                   /\ resp'[t].status = 200
                   /\ "tokenId" \in resp'[t].json.keys
                   /\ sent'[t].authorize = 1
                   /\ sent'[t].token = 0
                   /\ sent'[t].api = 0
             /\ Reaches(t, "token")
                => /\ pc[t] = "authorize"
                   /\ resp'[t].status = 302
                   /\ sent'[t].token = 1
                   /\ sent'[t].api = 0
             /\ Reaches(t, "api")
                => \/ /\ pc[t] \in {"idle", "done"}
                      /\ is_token_valid
                      /\ session' = session
                      /\ sent'[t] = [NoSent EXCEPT !.api = 1]
                   \/ /\ pc[t] = "token"
                      /\ resp'[t].status = 200
                      /\ token' = access_tokens'[t].access_token
                      /\ uuid' = access_tokens'[t].id_token.uuid
                      /\ token_expiration' = now + access_tokens'[t].expires_in
                      /\ sent'[t].authenticate >= 1
                      /\ sent'[t].authorize = 1
                      /\ sent'[t].token = 1
                      /\ sent'[t].api = 1
             /\ (pc[t] \in LoginPcs /\ pc'[t] = "done")
                => /\ sent'[t].api = 0
                   /\ ~api_headers'[t].dispatched ]_vars
C21_Witness ==
    \E t \in Tasks :
        /\ pc[t] = "api"
        /\ call[t].op = "request_raw"
        /\ sent[t] = [authenticate |-> 2, authorize |-> 1, token |-> 1, api |-> 1]
        /\ token = "tokA"
        /\ api_headers[t].bearer = "tokA"

\* C22: the challenge loop stops at the first authenticate response with
\* tokenId: when it arrives in round k, exactly k authenticate POSTs were
\* sent and the next request is the authorize GET with that tokenId as
\* the cookie.
C22_LoopStopsAtTokenId ==
    /\ [](\A t \in Tasks :
            pc[t] = "authenticate"
            => /\ round[t] \in 1..10
               /\ sent[t].authenticate = round[t]
               /\ sent[t].authorize = 0)
    /\ [][ \A t \in Tasks :
             ( /\ Leaves(t, "authenticate")
               /\ resp'[t].status = 200
               /\ resp'[t].text = JsonText
               /\ "tokenId" \in resp'[t].json.keys )
             => /\ pc'[t] = "authorize"
                /\ sent'[t].authenticate = round[t]
                /\ sent'[t].authorize = 1
                /\ sent'[t].token = 0
                /\ authorize_request'[t] =
                       [sent |-> TRUE,
                        iPlanetDirectoryPro |-> resp'[t].json.tokenId] ]_vars
C22_Witness ==
    \E t \in Tasks :
        /\ pc[t] = "authorize"
        /\ round[t] = 4
        /\ sent[t] = [NoSent EXCEPT !.authenticate = 4, !.authorize = 1]
        /\ authorize_request[t].iPlanetDirectoryPro = "tid1"

\* C23: the first authenticate POST carries an empty body; each later
\* POST carries the previous response in which the input of every
\* NameCallback whose output is 'User Name' is the username and the input
\* of every PasswordCallback is the password, and nothing else differs.
C23_PostedChallenge ==
    [][ \A t \in Tasks :
          /\ (pc[t] \in {"idle", "done"} /\ pc'[t] = "authenticate")
             => data'[t] = [keys |-> {}, tokenId |-> None, callbacks |-> <<>>]
          /\ (Leaves(t, "authenticate") /\ pc'[t] = "authenticate")
             => LET r == resp'[t].json
                    d == data'[t]
                    c == controller[call[t].self]
                IN  /\ d.keys = r.keys
                    /\ d.tokenId = r.tokenId
                    /\ Len(d.callbacks) = Len(r.callbacks)
                    /\ \A i \in 1..Len(r.callbacks) :
                          /\ d.callbacks[i].type = r.callbacks[i].type
                          /\ d.callbacks[i].output = r.callbacks[i].output
                          /\ d.callbacks[i].input =
                                IF /\ r.callbacks[i].type = "NameCallback"
                                   /\ r.callbacks[i].output = "User Name"
                                THEN c.username
                                ELSE IF r.callbacks[i].type = "PasswordCallback"
                                THEN c.password
                                ELSE r.callbacks[i].input ]_vars
C23_Witness ==
    \E t \in Tasks :
        /\ pc[t] = "authenticate"
        /\ round[t] = 3
        /\ resp[t].json.callbacks = LoginPrompts
        /\ data[t].callbacks =
               << [type |-> "NameCallback", output |-> "User Name",
                   input |-> "user@example.org"],
                  [type |-> "PasswordCallback", output |-> "Password",
                   input |-> "secret"],
                  [type |-> "ChoiceCallback", output |-> "Language",
                   input |-> "en"] >>

\* an HTTP call of task t is outstanding
InFlight(t) == pc[t] \in {"authenticate", "authorize", "token", "api"}

\* C24: if every HTTP call eventually returns a response, every login and
\* every request_raw call eventually ends, and one call sends at most 10
\* authenticate POSTs, one authorize GET, one token POST and one API
\* request.
C24_CallsTerminate ==
    /\ [](\A t \in Tasks :
            /\ sent[t].authenticate <= 10
            /\ sent[t].authorize <= 1
            /\ sent[t].token <= 1
            /\ sent[t].api <= 1)
    /\ \A t \in Tasks : InFlight(t) ~> (pc[t] = "done")
C24_Witness ==
    \E t \in Tasks :
        /\ pc[t] = "done"
        /\ call[t].op = "request_raw"
        /\ result[t].kind = "returned"
        /\ sent[t] = [authenticate |-> 10, authorize |-> 1, token |-> 1, api |-> 1]

\* C25: in every interleaving of concurrent login and request_raw calls
\* on one controller, the bearer token and the x-guid/guid of a dispatched
\* API request come from one and the same successful token exchange
\* (here: they are a pair the token endpoint issued together).
C25_TokenAndGuidOfOneExchange ==
    \A t \in Tasks :
        api_headers[t].dispatched
        => /\ <<api_headers[t].bearer, api_headers[t].x_guid>> \in IssuedPairs
           /\ api_headers[t].guid = api_headers[t].x_guid

\* C26: the dispatched request carries the pipeline's values for
\* x-api-key, x-guid, guid, authorization, x-channel, x-brand and
\* user-agent whatever the caller passed for them, a supplied vin
\* overrides a caller's vin header, and every other caller header is sent
\* unchanged.
C26_PipelineHeadersWin ==
    merged.done
    => LET h == merged.headers
           c == IF headers = <<>> THEN [k \in HeaderNames |-> <<>>] ELSE headers[1]
       IN  /\ h["x-api-key"] = <<"tTZipv6liF74PwMfk9Ed68AQ0bISswwf3iHQdqcF">>
           /\ h["x-guid"] = <<merged.uuid>>
           /\ h["guid"] = <<merged.uuid>>
           /\ h["authorization"] = <<"Bearer", merged.token>>
           /\ h["x-channel"] = <<"ONEAPP">>
           /\ h["x-brand"] = <<"T">>
           /\ h["user-agent"] = <<"okhttp/4.10.0">>
           /\ h["vin"] = IF merged.vin # None THEN <<merged.vin>> ELSE c["vin"]
           /\ h["accept"] = c["accept"]
C26_Witness ==
    /\ merged.done
    /\ headers # <<>>
    /\ \A k \in HeaderNames : headers[1][k] = <<"caller">>
    /\ merged.token = "tokA"
    /\ merged.vin = "VIN1"
    /\ merged.headers["authorization"] = <<"Bearer", "tokA">>
    /\ merged.headers["vin"] = <<"VIN1">>
    /\ merged.headers["accept"] = <<"caller">>

\* C27: is_connected_services_enabled is true exactly when the vehicle
\* has a non-empty vin and the connected-services data has
\* connectedService.status equal to 'ACTIVE'; whenever it is false,
\* parkinglocation, sensors, hvac and dashboard are None, whatever the
\* status data holds.
C27_ConnectedServicesGate ==
    LET cs == connected_services
        has_vin == "vin" \in vehicle_info.keys /\ vehicle_info.vin # ""
        active == /\ "connectedService" \in cs.keys
                  /\ cs.connectedService # <<>>
                  /\ "status" \in cs.connectedService[1].keys
                  /\ cs.connectedService[1].status = "ACTIVE"
        enabled == got.is_connected_services_enabled
    IN  "is_connected_services_enabled" \in got.read
        => /\ (enabled = [kind |-> "returned", value |-> TRUE])
                 <=> (has_vin /\ active)
           /\ (enabled = [kind |-> "returned", value |-> FALSE])
                 => /\ "parkinglocation" \in got.read
                       => got.parkinglocation = [kind |-> "returned", value |-> None]
                    /\ "sensors" \in got.read
                       => got.sensors = [kind |-> "returned", value |-> None]
                    /\ "hvac" \in got.read
                       => got.hvac = [kind |-> "returned", value |-> None]
                    /\ "dashboard" \in got.read
                       => got.dashboard = [kind |-> "returned", value |-> None]
C27_Witness ==
    /\ got.read = {"is_connected_services_enabled", "parkinglocation", "sensors",
                   "hvac", "dashboard"}
    /\ vehicle_info.vin = "VIN1"
    /\ connected_services.connectedService # <<>>
    /\ connected_services.connectedService[1].status = "INACTIVE"
    /\ vehicle_status.keys = {"event", "protectionState", "climate"}
    /\ "VehicleInfo" \in status_legacy.keys
    /\ "RemoteHvacInfo" \in status_legacy.VehicleInfo.keys
    /\ got.is_connected_services_enabled = [kind |-> "returned", value |-> FALSE]
    /\ got.hvac = [kind |-> "returned", value |-> None]
    /\ got.dashboard = [kind |-> "returned", value |-> None]

====
